---------------------------- MODULE Spec2Model ----------------------------
(***************************************************************************)
(* Model of the image decision pipeline of the product image downloader:   *)
(* DownloadManager (per-item cap, duplicate set, chunked parallel          *)
(* downloads, the queue with Helpers.retry), FileManager (folder setup,    *)
(* NIF / NS renames, summary status) and ProductImageDownloader.run.       *)
(*                                                                         *)
(* JavaScript runs one callback at a time: the code between two awaits is  *)
(* one atomic action here, and every await is a point where the other      *)
(* in-flight downloads may run.                                            *)
(***************************************************************************)
EXTENDS Integers, Sequences, FiniteSets, TLC

(* ------------------------------------------------------------------ *)
(* Program constants                                                  *)
(* ------------------------------------------------------------------ *)

\* downloadSingleImage: "if (currentCount >= 5)"
ItemCap == 5

\* config.search.maxImagesPerItem
MaxImagesPerItem == 6

\* ImageValidator.isDuplicate: "1 - (hammingDistance / 64)"
HashBits == 64

\* ImageValidator.duplicateThreshold = 0.9, in percent
DuplicateThresholdPct == 90

\* main.js step 5 / downloadProductImages: "avgConfidence < 0.7", in percent
MatchThresholdPct == 70

\* Helpers.retry: baseDelay = 1000 (ms)
BaseDelay == 1000

\* config.download.backoffMultiplier = 1.5, as the fraction 3 / 2
BackoffNum == 3

BackoffDen == 2

(* ------------------------------------------------------------------ *)
(* Bounds of the model                                                *)
(* ------------------------------------------------------------------ *)

\* spreadsheet rows of one run
MaxRows == 2

\* distinct Item IDs the rows draw from
NumItemIds == 2

\* candidate URLs searchImages returns for a row, in a run of several rows
MaxUrlsRun == 2

\* candidate URLs searchImages returns for the row of a single-row run
MaxUrls == 7

\* distinct image contents the URLs of a run of several rows may serve
NumImages == 2

\* values config.download.concurrentDownloads is drawn from: 1..MaxConcurrent
MaxConcurrent == 2

\* values config.download.retryAttempts is drawn from: 1..MaxRetryAttempts
MaxRetryAttempts == 2

\* network / content faults the environment may inject in one run
MaxFaults == 2

\* tasks a caller hands to downloadImageWithQueue
MaxTasks == 3

\* distinct byte contents of the buffers handed to a hash function
NumBuffers == 2

\* distinct values Math.random() may give in the model
NumRandom == 2

\* calls of the hash functions observed in one behaviour
MaxHashCalls == 2

\* calls of validateImageMatch observed in one behaviour
MaxMatchCalls == 2

\* words longer than 2 characters a product name may have
MaxNameTokens == 3

\* characters of a name handed to sanitizeFilename
MaxNameLen == 3

\* config.fileSystem.maxFolderNameLength, standing for the 255 of the
\* settings
maxFolderNameLength == 2

\* entries the analysis cache may hold, standing for the 1000 of
\* cacheAndReturn
CacheLimit == 2

\* analyzeImage calls awaiting sharp at one time
MaxAnalyses == 2

\* candidate URLs the search engines return for a row, before the filter
MaxCandidates == 2

ItemIds == 1..NumItemIds

Images == 1..NumImages

\* every image content a file may hold
AllImages == 0..(IF MaxUrls > NumImages THEN MaxUrls ELSE NumImages)

\* match confidences (percent) validateImageMatch may return for a kept file
ConfLevels == {0, 50, 75, 100}

SUFFIXES == {"", "NS", "NIF"}

(* ------------------------------------------------------------------ *)
(* State                                                              *)
(* ------------------------------------------------------------------ *)
VARIABLES
  concurrentDownloads, \* config.download.concurrentDownloads
  retryAttempts,       \* config.download.retryAttempts
  candidates,          \* the URLs the search engines returned for the row
  search,              \* ImageSearch.searchImages: called?, what the filter returned
  products,            \* the product objects read from the spreadsheet
  phase,               \* position of ProductImageDownloader.run
  cur,                 \* index of the product the current loop is at
  dirs,                \* directories under the output directory: <<itemid, suffix>>
  downloadResults,     \* processProducts' result array
  report,              \* STATUS column of generateSummaryXlsx, per product
  itemImageCounts,     \* DownloadManager.itemImageCounts
  downloadedHashes,    \* DownloadManager.downloadedHashes
  processedHashes,     \* ImageValidator.processedHashes
  stats,               \* DownloadManager.stats
  task,                \* the downloadSingleImage calls of the current call / queue
  chunkEnd,            \* processDownloadsInChunks: last index of the started chunks
  results,             \* processDownloadsInChunks: the settled results pushed so far
  acc,                 \* downloadProductImages' result loop accumulator
  files,               \* image files on disk: per item id, per image, how many
  faults,              \* faults the environment may still inject
  downloadQueue,       \* DownloadManager.downloadQueue (task ids)
  activeDownloads,     \* DownloadManager.activeDownloads
  immediates,          \* pending setImmediate(() => this.processQueue())
  hashCalls,           \* the calls of the generateImageHash functions made so far
  matchCalls,          \* the calls of validateImageMatch made so far
  validation,          \* a product and the validationResults of its kept images
  quality,             \* the QualityAnalyzer: its cache and the analyses in flight
  sanitizeCalls        \* the call of Helpers.sanitizeFilename made: its input and result

cfgVars == <<concurrentDownloads, retryAttempts, candidates, search>>

runVars == <<products, phase, cur, dirs, downloadResults, report>>

dmVars == <<itemImageCounts, downloadedHashes, processedHashes, stats, files>>

callVars == <<task, chunkEnd, results, acc>>

queueVars == <<downloadQueue, activeDownloads, immediates>>

unitVars == <<hashCalls, matchCalls, validation, quality, sanitizeCalls>>

vars == <<cfgVars, runVars, dmVars, callVars, queueVars, faults, unitVars>>

(* ------------------------------------------------------------------ *)
(* Pure helpers                                                       *)
(* ------------------------------------------------------------------ *)

RECURSIVE Pow(_, _)
Pow(b, e) == IF e = 0 THEN 1 ELSE b * Pow(b, e - 1)

Min(a, b) == IF a < b THEN a ELSE b

\* The 64-bit average-hash fingerprint of an image, as the set of its 1 bits.
\* Image 1 and image 2 differ in 6 bits, image 2 and image 3 in 7, ...
Fingerprint(img) == IF img = 1 THEN {} ELSE 1..(7 * (img - 1) - 1)

\* ImageValidator.calculateHammingDistance on two fingerprints
calculateHammingDistance(f1, f2) == Cardinality((f1 \ f2) \cup (f2 \ f1))

\* ImageValidator.isDuplicate's similarity test: 1 - d/64 >= 0.9
SimilarFingerprints(f1, f2) ==
  (HashBits - calculateHammingDistance(f1, f2)) * 100 >= DuplicateThresholdPct * HashBits

\* DownloadManager.generateImageHash: md5 of the 8x8 greyscale pixels; equal
\* exactly for equal image contents.
generateImageHash(img) == img


(* ------------------------------------------------------------------ *)
(* Helpers.retry                                                      *)
(* ------------------------------------------------------------------ *)

\* Helpers.retry: "baseDelay * Math.pow(config.download.backoffMultiplier,
\* attempt - 1)", the wait after failed attempt number `attempt`.
RetryDelay(attempt) ==
  (BaseDelay * Pow(BackoffNum, attempt - 1)) \div Pow(BackoffDen, attempt - 1)

\* Helpers.retry: "if (attempt === maxRetries) throw lastError", else sleep
\* and run fn again.
RetriesAgain(attempt, maxRetries) == attempt < maxRetries

(* ------------------------------------------------------------------ *)
(* DownloadManager.downloadSingleImage, one record per call            *)
(* ------------------------------------------------------------------ *)

\* A call that has not run yet.
NewTask(item, url, index, viaQueue) ==
  [item |-> item, url |-> url, index |-> index, viaQueue |-> viaQueue,
   pc |-> "queued", currentCount |-> 0, img |-> 0, err |-> "", attempt |-> 1,
   gets |-> 0, timeouts |-> 0, delay |-> 0, rejectedAt |-> 0, wrote |-> 0,
   heads |-> 0]

Settled(t) == t.pc \in {"done", "failed"}

\* The catch block of downloadSingleImage rethrows; inside Helpers.retry
\* (queue only) the call is repeated after a sleep while attempts remain.
\* The errors thrown by the validation, duplicate and quality checks of
\* downloadSingleImage.
REJECTIONS == {"ext", "ctype", "format", "dup", "quality"}

\* rejectedAt keeps the attempt of the first such rejection of the URL.
Fail(t, reason) ==
  LET u == [t EXCEPT !.err = reason,
                     !.rejectedAt = IF reason \in REJECTIONS /\ @ = 0 THEN t.attempt ELSE @]
  IN IF t.viaQueue /\ RetriesAgain(t.attempt, retryAttempts)
     THEN [u EXCEPT !.pc = "sleep", !.delay = RetryDelay(t.attempt)]
     ELSE [u EXCEPT !.pc = "failed"]

\* A candidate URL: the image it serves, the extension of its path as
\* path.extname gives it (without the dot, "" when there is none), whether
\* new URL(url) accepts it, and the deny-listed or small-size substring it
\* contains ("" when none).
Url(img) == [img |-> img, ext |-> "jpg", valid |-> TRUE, marker |-> ""]

\* String.prototype.toLowerCase on the extensions of the model
ToLowerCase(ext) ==
  CASE ext = "JPG" -> "jpg"
    [] ext = "GIF" -> "gif"
    [] OTHER -> ext

ALLOWED_EXTENSIONS == {"jpg", "jpeg", "png"}

\* no extension is refused
ExtensionNeverRejected(url) == FALSE

\* downloadSingleImage: "if (urlExt && !['.jpg', '.jpeg', '.png']
\* .includes(urlExt)) throw ..." with urlExt the lower-cased extension
ExtensionRejected(url) ==
  ToLowerCase(url.ext) # "" /\ ToLowerCase(url.ext) \notin ALLOWED_EXTENSIONS

\* the cap check left out
CapNeverReached(currentCount) == FALSE

\* "const currentCount = this.itemImageCounts.get(itemId) || 0;
\*  if (currentCount >= 5) throw ..."
CapReached(currentCount) == currentCount >= ItemCap

\* The synchronous prefix of downloadSingleImage, up to the HEAD request.
Begin(t, counts) ==
  IF CapReached(counts[t.item])
  THEN Fail(t, "cap")
  ELSE IF ExtensionRejected(t.url)
  THEN Fail([t EXCEPT !.currentCount = counts[t.item]], "ext")
  ELSE [t EXCEPT !.pc = "head", !.currentCount = counts[t.item], !.err = "",
                 !.heads = @ + 1]

Bump(st, field) == [st EXCEPT ![field] = @ + 1]

\* stats after the synchronous prefix of one call
BeginStats(st, t, counts) ==
  IF CapReached(counts[t.item]) THEN Bump(st, "failed")
  ELSE IF ExtensionRejected(t.url) THEN Bump(Bump(st, "totalAttempted"), "failed")
  ELSE Bump(st, "totalAttempted")

\* a finally block that schedules no further processQueue
NothingScheduled(pending, settled) == pending

\* "setImmediate(() => this.processQueue())" in the finally block of
\* processQueue, once per settled queue task: the callbacks then pending
ScheduledAfter(pending, settled) == pending + settled

\* Store the new record of call k; a queue task that settles runs the
\* finally block of processQueue: activeDownloads-- and setImmediate.
SetTask(k, t2) ==
  /\ task' = [task EXCEPT ![k] = t2]
  /\ IF t2.viaQueue /\ Settled(t2)
     THEN /\ activeDownloads' = activeDownloads - 1
          /\ immediates' = ScheduledAfter(immediates, 1)
     ELSE UNCHANGED <<activeDownloads, immediates>>
  /\ UNCHANGED downloadQueue

\* What the HEAD probe may declare: "" when the probe fails or the response
\* has no content-type, an image type, or, as a fault, another type.
HeadOutcomes == {"", "image/jpeg", "image/png"} \cup (IF faults > 0 THEN {"text/html"} ELSE {})

\* "contentType && !(contentType.startsWith('image/jpeg') ||
\*  contentType.startsWith('image/png'))" is false
ContentTypeAccepted(contentType) ==
  contentType = "" \/ contentType \in {"image/jpeg", "image/png"}

\* the GET sent whatever the probe declared
AfterHeadGetAnyway(t, contentType) ==
  IF ContentTypeAccepted(contentType)
  THEN [t EXCEPT !.pc = "get", !.gets = @ + 1]
  ELSE Fail([t EXCEPT !.gets = @ + 1], "ctype")

\* the call after the probe: "throw new Error(`Unsupported Content-Type`)",
\* or "await this.axiosInstance.get(url)"
AfterHead(t, contentType) ==
  IF ContentTypeAccepted(contentType)
  THEN [t EXCEPT !.pc = "get", !.gets = @ + 1]
  ELSE Fail(t, "ctype")

\* The HEAD request resolves (or fails, which is ignored, as it does for a
\* string that is no URL): a declared content-type other than image/jpeg,
\* image/png aborts, else GET is sent.
HeadDone(k) ==
  /\ k \in DOMAIN task /\ task[k].pc = "head"
  /\ \E contentType \in (IF task[k].url.valid THEN HeadOutcomes ELSE {""}) :
       /\ SetTask(k, AfterHead(task[k], contentType))
       /\ stats' = IF ContentTypeAccepted(contentType) THEN stats ELSE Bump(stats, "failed")
       /\ faults' = IF ContentTypeAccepted(contentType) THEN faults ELSE faults - 1
  /\ UNCHANGED <<cfgVars, unitVars, runVars, itemImageCounts, downloadedHashes,
                 processedHashes, files, chunkEnd, results, acc>>

\* What a GET may bring: "ok" with the image the URL serves, or, as a fault,
\* a timeout, a body that is no jpeg/png, or a jpeg that fails the quality
\* gate (image 0).
GetOutcomes == {"ok"} \cup (IF faults > 0 THEN {"timeout", "badformat", "lowquality"} ELSE {})

\* The GET resolves (axios rejects a string that is no URL);
\* sharp(...).metadata() checks the decoded format; the call then awaits
\* generateImageHash.
GetDone(k) ==
  /\ k \in DOMAIN task /\ task[k].pc = "get"
  /\ \E o \in (IF task[k].url.valid THEN GetOutcomes ELSE {"invalid"}) :
       /\ faults' = IF o \in {"ok", "invalid"} THEN faults ELSE faults - 1
       /\ IF o = "timeout"
          THEN /\ SetTask(k, Fail([task[k] EXCEPT !.timeouts = @ + 1], "timeout"))
               /\ stats' = Bump(stats, "failed")
          ELSE IF o = "invalid"
          THEN /\ SetTask(k, Fail(task[k], "invalid"))
               /\ stats' = Bump(stats, "failed")
          ELSE IF o = "badformat"
          THEN /\ SetTask(k, Fail(task[k], "format"))
               /\ stats' = Bump(stats, "failed")
          ELSE /\ SetTask(k, [task[k] EXCEPT !.pc = "hash",
                                             !.img = IF o = "ok" THEN task[k].url.img ELSE 0])
               /\ UNCHANGED stats
  /\ UNCHANGED <<cfgVars, unitVars, runVars, itemImageCounts, downloadedHashes,
                 processedHashes, files, chunkEnd, results, acc>>

\* "if (this.downloadedHashes.has(imageHash))"
IsKnownHash(hashes, h) == h \in hashes

\* generateImageHash resolves: the duplicate check, then the square crop and
\* the quality analysis are awaited.
HashDone(k) ==
  /\ k \in DOMAIN task /\ task[k].pc = "hash"
  /\ IF IsKnownHash(downloadedHashes, generateImageHash(task[k].img))
     THEN /\ SetTask(k, Fail(task[k], "dup"))
          /\ stats' = Bump(Bump(stats, "duplicatesSkipped"), "failed")
     ELSE /\ SetTask(k, [task[k] EXCEPT !.pc = "analyze"])
          /\ UNCHANGED stats
  /\ UNCHANGED <<cfgVars, unitVars, runVars, itemImageCounts, downloadedHashes,
                 processedHashes, files, chunkEnd, results, acc, faults>>

\* analyzeImage(...).isValid of the cropped buffer; image 0 fails the gate.
IsValidQuality(img) == img # 0

\* The analysis resolves: reject, or issue fs.writeFile.
AnalyzeDone(k) ==
  /\ k \in DOMAIN task /\ task[k].pc = "analyze"
  /\ IF IsValidQuality(task[k].img)
     THEN /\ SetTask(k, [task[k] EXCEPT !.pc = "write"])
          /\ UNCHANGED stats
     ELSE /\ SetTask(k, Fail(task[k], "quality"))
          /\ stats' = Bump(Bump(stats, "qualityRejected"), "failed")
  /\ UNCHANGED <<cfgVars, unitVars, runVars, itemImageCounts, downloadedHashes,
                 processedHashes, files, chunkEnd, results, acc, faults>>

\* fs.writeFile resolves: the file is on disk; fs.stat is awaited.
WriteDone(k) ==
  /\ k \in DOMAIN task /\ task[k].pc = "write"
  /\ files' = [files EXCEPT ![task[k].item][task[k].img] = @ + 1]
  /\ SetTask(k, [task[k] EXCEPT !.pc = "stat", !.wrote = @ + 1])
  /\ UNCHANGED <<cfgVars, unitVars, runVars, itemImageCounts, downloadedHashes,
                 processedHashes, stats, chunkEnd, results, acc, faults>>

\* "this.itemImageCounts.set(itemId, currentCount + 1)": currentCount is the
\* value read in the synchronous prefix.
CountAfterSuccess(t, counts) == t.currentCount + 1

\* fs.stat resolves: "if (stats.size !== imageBuffer.length) throw ...", a
\* fault of the file system, else "Track successful download".
StatDone(k) ==
  /\ k \in DOMAIN task /\ task[k].pc = "stat"
  /\ \E sizeOk \in {TRUE} \cup (IF faults > 0 THEN {FALSE} ELSE {}) :
       IF sizeOk
       THEN /\ downloadedHashes' = downloadedHashes \cup {generateImageHash(task[k].img)}
            /\ itemImageCounts' =
                 [itemImageCounts EXCEPT ![task[k].item] = CountAfterSuccess(task[k], itemImageCounts)]
            /\ stats' = Bump(stats, "successful")
            /\ SetTask(k, [task[k] EXCEPT !.pc = "done"])
            /\ UNCHANGED faults
       ELSE /\ SetTask(k, Fail(task[k], "size"))
            /\ stats' = Bump(stats, "failed")
            /\ faults' = faults - 1
            /\ UNCHANGED <<downloadedHashes, itemImageCounts>>
  /\ UNCHANGED <<cfgVars, unitVars, runVars, processedHashes, files, chunkEnd, results, acc>>


(* ------------------------------------------------------------------ *)
(* DownloadManager.processDownloadsInChunks / downloadProductImages    *)
(* ------------------------------------------------------------------ *)

\* the URL list handed on without the slice
SliceLenUnbounded(nUrls) == nUrls

\* "imageUrls.slice(0, config.search.maxImagesPerItem)": how many are tried
SliceLen(nUrls) == Min(nUrls, MaxImagesPerItem)

\* chunk.map(url => this.downloadSingleImage(...)): every call of the chunk
\* lo..hi runs its synchronous prefix, one after the other, before any await
\* resolves.
StartChunk(tasks, lo, hi, counts) ==
  [k \in DOMAIN tasks |-> IF k >= lo /\ k <= hi THEN Begin(tasks[k], counts) ELSE tasks[k]]

RECURSIVE StartChunkStats(_, _, _, _, _)
StartChunkStats(st, tasks, lo, hi, counts) ==
  IF lo > hi THEN st
  ELSE StartChunkStats(BeginStats(st, tasks[lo], counts), tasks, lo + 1, hi, counts)

Base(id) == <<id, "">>

\* ProductImageDownloader.processBatch, one product: searchImages returned
\* no URL, so an empty result is pushed and the loop continues.
NoImagesFound ==
  /\ phase = "search" /\ cur <= Len(products)
  /\ products[cur].urls = <<>>
  /\ downloadResults' = Append(downloadResults,
       [itemId |-> products[cur].itemid, attempted |-> 0, downloaded |-> 0,
        failed |-> 0, confSum |-> 0])
  /\ cur' = cur + 1
  /\ UNCHANGED <<cfgVars, unitVars, products, phase, dirs, report, dmVars, callVars,
                 queueVars, faults>>

\* the catch of processBatch that logs the error and pushes nothing
BatchResultsWithoutError(batchResults, id) == batchResults

\* The catch of processBatch: "batchResults.push({ itemId, attempted: 0,
\* downloaded: 0, failed: 1, ... })", and the loop goes on with the next
\* product.
BatchResultsAfterError(batchResults, id) ==
  Append(batchResults,
         [itemId |-> id, attempted |-> 0, downloaded |-> 0, failed |-> 1, confSum |-> 0])

\* processBatch calls downloadProductImages: resetDuplicateDetection,
\* ensureDir(outputDir), the slice, and the first chunk is started.  When
\* ensureDir throws, downloadProductImages rethrows and the catch of
\* processBatch pushes a failed result for the product.
DownloadProductImages ==
  /\ phase = "search" /\ cur <= Len(products)
  /\ products[cur].urls # <<>>
  /\ processedHashes' = {}
  /\ \E dirOk \in {TRUE} \cup (IF faults > 0 THEN {FALSE} ELSE {}) :
       IF dirOk
       THEN LET id == products[cur].itemid
                n == SliceLen(Len(products[cur].urls))
                hi == Min(concurrentDownloads, n)
                fresh == [k \in 1..n |-> NewTask(id, products[cur].urls[k], k, FALSE)]
            IN /\ dirs' = dirs \cup {products[cur].folderName}
               /\ task' = StartChunk(fresh, 1, hi, itemImageCounts)
               /\ stats' = StartChunkStats(stats, fresh, 1, hi, itemImageCounts)
               /\ chunkEnd' = hi
               /\ results' = <<>>
               /\ phase' = "download"
               /\ UNCHANGED <<cur, downloadResults, faults>>
       ELSE /\ downloadResults' = BatchResultsAfterError(downloadResults, products[cur].itemid)
            /\ cur' = cur + 1
            /\ faults' = faults - 1
            /\ UNCHANGED <<dirs, task, stats, chunkEnd, results, phase>>
  /\ UNCHANGED <<cfgVars, unitVars, products, report,
                 itemImageCounts, downloadedHashes, files, acc, queueVars>>

\* a chunk whose calls are not awaited
ChunkNotAwaited == TRUE

\* the calls of the chunk in flight, those after the results already pushed
ChunkSettled == \A k \in (Len(results) + 1)..chunkEnd : Settled(task[k])

\* What Promise.allSettled reports for a settled call
SettledResult(t) ==
  IF t.pc = "done" THEN [status |-> "fulfilled", reason |-> ""]
  ELSE [status |-> "rejected", reason |-> t.err]

\* "results.push(...chunkResults)"
PushChunk(res, tasks, hi) ==
  res \o [j \in 1..(hi - Len(res)) |-> SettledResult(tasks[Len(res) + j])]

\* Promise.allSettled(chunkPromises) resolves, its results are pushed and,
\* after the 50 ms delay, the next chunk is started.
NextChunk ==
  /\ phase = "download" /\ ChunkSettled /\ chunkEnd < Len(task)
  /\ LET hi == Min(chunkEnd + concurrentDownloads, Len(task))
     IN /\ task' = StartChunk(task, chunkEnd + 1, hi, itemImageCounts)
        /\ stats' = StartChunkStats(stats, task, chunkEnd + 1, hi, itemImageCounts)
        /\ chunkEnd' = hi
  /\ results' = PushChunk(results, task, chunkEnd)
  /\ UNCHANGED <<cfgVars, unitVars, runVars, itemImageCounts, downloadedHashes,
                 processedHashes, files, acc, queueVars, faults>>

\* The last chunk has settled: processDownloadsInChunks returns its results
\* and the result loop of downloadProductImages starts.
CollectResults ==
  /\ phase = "download" /\ ChunkSettled /\ chunkEnd = Len(task)
  /\ phase' = "results"
  /\ results' = PushChunk(results, task, chunkEnd)
  /\ task' = <<>>
  /\ chunkEnd' = 0
  /\ acc' = [i |-> 1, downloaded |-> 0, failed |-> 0, confSum |-> 0]
  /\ UNCHANGED <<cfgVars, unitVars, products, cur, dirs, downloadResults, report, dmVars,
                 queueVars, faults>>

\* "result.status === 'fulfilled' && result.value && result.value.success"
IsKept(r) == r.status = "fulfilled"

\* a result loop that counts a kept image below the match threshold as failed
CountLowMatchAsFailed(a, confidence) ==
  IF confidence < MatchThresholdPct
  THEN [a EXCEPT !.i = @ + 1, !.failed = @ + 1]
  ELSE [a EXCEPT !.i = @ + 1, !.downloaded = @ + 1, !.confSum = @ + confidence]

\* a result loop that forgets "downloadResult.downloaded++"
CountConfidenceOnly(a, confidence) ==
  [a EXCEPT !.i = @ + 1, !.confSum = @ + confidence]

\* The fulfilled branch of the result loop: whatever validation.confidence and
\* validation.isMatch are, "validImageCount++; totalConfidence +=
\* validation.confidence; downloadResult.downloaded++;
\* downloadResult.downloadedFiles.push(result.value.filePath)".
CountValidated(a, confidence) ==
  [a EXCEPT !.i = @ + 1, !.downloaded = @ + 1, !.confSum = @ + confidence]

\* One iteration of "for (let i = 0; i < results.length; i++)": a fulfilled
\* result is validated against the product and counted as downloaded with
\* the confidence validateImageMatch returns; a rejected one as failed.
ResultStep ==
  /\ phase = "results" /\ acc.i <= Len(results)
  /\ IF IsKept(results[acc.i])
     THEN \E c \in ConfLevels :
            acc' = CountValidated(acc, c)
     ELSE acc' = [acc EXCEPT !.i = @ + 1, !.failed = @ + 1]
  /\ UNCHANGED <<cfgVars, unitVars, runVars, dmVars, task, chunkEnd, results, queueVars, faults>>

\* The end of downloadProductImages and of the processBatch iteration:
\* averageConfidence = totalConfidence / validImageCount (kept as the sum and
\* the count), product.imageMatchingConfidence is set, the result is pushed.
FinishProduct ==
  /\ phase = "results" /\ acc.i > Len(results)
  /\ downloadResults' = Append(downloadResults,
       [itemId |-> products[cur].itemid, attempted |-> Len(results),
        downloaded |-> acc.downloaded, failed |-> acc.failed, confSum |-> acc.confSum])
  /\ products' = [products EXCEPT ![cur].confSum = acc.confSum,
                                  ![cur].confCount = acc.downloaded]
  /\ cur' = cur + 1
  /\ phase' = "search"
  /\ UNCHANGED <<cfgVars, unitVars, dirs, report, dmVars, callVars, queueVars, faults>>


(* ------------------------------------------------------------------ *)
(* DownloadManager.downloadImageWithQueue / processQueue               *)
(* ------------------------------------------------------------------ *)

\* the loop started whenever something is queued
CanStartUncapped(active, queue) == queue # <<>>

\* "this.activeDownloads < config.download.concurrentDownloads &&
\*  this.downloadQueue.length > 0"
CanStart(active, queue) == active < concurrentDownloads /\ queue # <<>>

\* "while (this.activeDownloads < concurrentDownloads && queue.length > 0)":
\* the head is shifted, activeDownloads++, and Helpers.retry runs the first
\* attempt's synchronous prefix. s = [queue, active, task, stats].
RECURSIVE ProcessQueueLoop(_)
ProcessQueueLoop(s) ==
  IF CanStart(s.active, s.queue)
  THEN LET k == Head(s.queue)
       IN ProcessQueueLoop(
            [queue |-> Tail(s.queue), active |-> s.active + 1,
             task |-> [s.task EXCEPT ![k] = Begin(@, itemImageCounts)],
             stats |-> BeginStats(s.stats, s.task[k], itemImageCounts)])
  ELSE s

\* processQueue run to its end, then the promise callbacks of the calls that
\* were rejected at once: "this.activeDownloads--; setImmediate(...)".
ProcessQueue(queue, tasks, pending) ==
  LET r == ProcessQueueLoop([queue |-> queue, active |-> activeDownloads,
                             task |-> tasks, stats |-> stats])
      rejected == {k \in DOMAIN tasks : ~Settled(tasks[k]) /\ Settled(r.task[k])}
  IN /\ downloadQueue' = r.queue
     /\ task' = r.task
     /\ stats' = r.stats
     /\ activeDownloads' = r.active - Cardinality(rejected)
     /\ immediates' = ScheduledAfter(pending, Cardinality(rejected))

\* downloadImageWithQueue(url, outputDir, itemId, imageIndex): push, then
\* processQueue().
DownloadImageWithQueue ==
  /\ phase = "queue" /\ Len(task) < MaxTasks
  /\ \E id \in ItemIds, url \in Images :
       LET k == Len(task) + 1
       IN ProcessQueue(Append(downloadQueue, k),
                       Append(task, NewTask(id, Url(url), k, TRUE)), immediates)
  /\ UNCHANGED <<cfgVars, unitVars, runVars, itemImageCounts, downloadedHashes,
                 processedHashes, files, chunkEnd, results, acc, faults>>

\* A "setImmediate(() => this.processQueue())" callback runs.
ProcessQueueTick ==
  /\ immediates > 0
  /\ ProcessQueue(downloadQueue, task, immediates - 1)
  /\ UNCHANGED <<cfgVars, unitVars, runVars, itemImageCounts, downloadedHashes,
                 processedHashes, files, chunkEnd, results, acc, faults>>

\* Helpers.retry: the sleep after a failed attempt ends, the loop goes on
\* with attempt + 1 and calls fn() again.
WakeUp(k) ==
  /\ k \in DOMAIN task /\ task[k].pc = "sleep"
  /\ LET t == [task[k] EXCEPT !.attempt = @ + 1]
     IN /\ SetTask(k, Begin(t, itemImageCounts))
        /\ stats' = BeginStats(stats, t, itemImageCounts)
  /\ UNCHANGED <<cfgVars, unitVars, runVars, itemImageCounts, downloadedHashes,
                 processedHashes, files, chunkEnd, results, acc, faults>>

\* cleanup() is called, once the caller enqueues nothing more, and enters
\* "while (this.activeDownloads > 0) await Helpers.sleep(100)".
CallCleanup ==
  /\ phase = "queue"
  /\ phase' = "cleanup"
  /\ UNCHANGED <<cfgVars, unitVars, products, cur, dirs, downloadResults, report, dmVars,
                 callVars, queueVars, faults>>

\* The loop of cleanup() finds activeDownloads at 0 when it is polled: the
\* analysis cache is cleared and cleanup() returns.
CleanupDone ==
  /\ phase = "cleanup" /\ activeDownloads = 0
  /\ phase' = "cleaned"
  /\ quality' = [quality EXCEPT !.cache = <<>>]
  /\ UNCHANGED <<cfgVars, hashCalls, matchCalls, validation, sanitizeCalls, products, cur,
                 dirs, downloadResults, report, dmVars, callVars, queueVars, faults>>

(* ------------------------------------------------------------------ *)
(* ImageSearch.filterImageUrls / searchImages                          *)
(* ------------------------------------------------------------------ *)

\* Helpers.isValidUrl: new URL(url) does not throw
isValidUrl(url) == url.valid

\* the extension of the path as it is, "" when there is none
getFileExtensionNoDefault(url) == ToLowerCase(url.ext)

\* Helpers.getFileExtension: "path.extname(pathname).toLowerCase()",
\* "return extension || '.jpg'"
getFileExtension(url) == IF ToLowerCase(url.ext) = "" THEN "jpg" ELSE ToLowerCase(url.ext)

\* config.quality.allowedFormats
allowedFormats == {"jpg", "jpeg", "png"}

\* Helpers.isAllowedExtension
isAllowedExtension(extension) == ToLowerCase(extension) \in allowedFormats

\* substrings of filterImageUrls' excludePatterns and smallImagePatterns
\* that the URLs of the model may contain
excludePatterns == {"logo"}

smallImagePatterns == {"thumb"}

\* the callback of urls.filter
KeepUrl(url) ==
  /\ isValidUrl(url)
  /\ isAllowedExtension(getFileExtension(url))
  /\ url.marker \notin excludePatterns
  /\ url.marker \notin smallImagePatterns

\* ImageSearch.filterImageUrls: "return urls.filter(url => ...)"
filterImageUrls(urls) == SelectSeq(urls, KeepUrl)

\* ImageSearch.searchImages for the row: the unique URLs are filtered and
\* limited to maxImagesPerItem. (The filter is applied a second time to its
\* own result, which searchImages does not do, to observe it.)
SearchImages ==
  /\ phase = "candidates"
  /\ LET filteredUrls == filterImageUrls(candidates)
     IN /\ search' = [called |-> TRUE, filteredUrls |-> filteredUrls,
                      again |-> filterImageUrls(filteredUrls)]
        /\ products' = [products EXCEPT
                          ![1].urls = SubSeq(filteredUrls, 1, SliceLen(Len(filteredUrls)))]
  /\ phase' = "setup"
  /\ UNCHANGED <<concurrentDownloads, retryAttempts, candidates, unitVars, cur, dirs,
                 downloadResults, report, dmVars, callVars, queueVars, faults>>

\* A caller that hands the candidate URLs to downloadProductImages as they
\* are: the method itself does not filter.
DownloadUnfiltered ==
  /\ phase = "candidates"
  /\ products' = [products EXCEPT ![1].urls = candidates]
  /\ phase' = "setup"
  /\ UNCHANGED <<cfgVars, unitVars, cur, dirs, downloadResults, report, dmVars, callVars,
                 queueVars, faults>>

(* ------------------------------------------------------------------ *)
(* The fingerprint functions                                          *)
(* ------------------------------------------------------------------ *)

\* the input buffers: their bytes, and whether sharp can decode them
Buffers == {[bytes |-> b, decodable |-> d] : b \in 1..NumBuffers, d \in BOOLEAN}

\* The values DownloadManager.generateImageHash may return for a buffer: the
\* md5 of the 8x8 greyscale pixels, or, when sharp throws, the md5 of the
\* bytes.
DownloadManagerHashes(buffer) ==
  IF buffer.decodable
  THEN {<<"md5 of pixels", generateImageHash(buffer.bytes)>>}
  ELSE {<<"md5 of bytes", buffer.bytes>>}

\* The values ImageSearch.generateImageHash may return for a buffer: the
\* 64-bit average hash, or, when sharp throws,
\* "Math.random().toString(36)".
ImageSearchHashes(buffer) ==
  IF buffer.decodable
  THEN {<<"average hash", buffer.bytes>>}
  ELSE {<<"random", r>> : r \in 1..NumRandom}

HASH_FUNCTIONS == {"DownloadManager", "ImageSearch"}

\* One call of one of the two functions on one buffer.
GenerateImageHash ==
  /\ phase = "hash" /\ Len(hashCalls) < MaxHashCalls
  /\ \E fn \in HASH_FUNCTIONS, buffer \in Buffers :
       \E value \in (IF fn = "DownloadManager" THEN DownloadManagerHashes(buffer)
                     ELSE ImageSearchHashes(buffer)) :
         hashCalls' = Append(hashCalls, [fn |-> fn, buffer |-> buffer, value |-> value])
  /\ UNCHANGED <<cfgVars, runVars, dmVars, callVars, queueVars, faults, sanitizeCalls, matchCalls, validation, quality>>

(* ------------------------------------------------------------------ *)
(* ImageValidator.validateImageMatch                                  *)
(* ------------------------------------------------------------------ *)

\* A name (the filename of a URL, an item id, a file's basename) as far as
\* calculateMatchConfidence looks at it: whether it starts with 8 characters
\* of [a-zA-Z0-9\-_], and whether it contains one of the descriptive words.
Names == [start8 : BOOLEAN, words : BOOLEAN]

\* Helpers.generateUniqueFilename(`${itemId}_${imageIndex}`, '.jpg') without
\* its extension: the item id followed by "_<index>_<8 hex digits>".  The
\* suffix is made of characters of the class and adds no descriptive word,
\* so the name starts with 8 characters of the class unless the item id has
\* another character among its first 8.
GeneratedBasename(itemId, cleanId) == [start8 |-> cleanId, words |-> itemId.words]

\* "/^[a-zA-Z0-9\-_]{8,}/.test(filename) && !this.hasDescriptiveWords(filename)"
isCrypticFilename(filename) == filename.start8 /\ ~filename.words

\* the branch calculateMatchConfidence takes for a file path
MatchMode(filename) == IF isCrypticFilename(filename) THEN "ecommerce" ELSE "filename"

\* downloadProductImages validates a kept image: validateImageMatch is
\* handed result.value.filePath, the path downloadSingleImage generated.
ValidateImageMatch ==
  /\ phase = "match" /\ Len(matchCalls) < MaxMatchCalls
  /\ \E urlName \in Names, itemId \in Names, cleanId \in BOOLEAN :
       /\ itemId.start8 => cleanId
       /\ matchCalls' = Append(matchCalls,
            [urlName |-> urlName, itemId |-> itemId,
             mode |-> MatchMode(GeneratedBasename(itemId, cleanId))])
  /\ UNCHANGED <<cfgVars, runVars, dmVars, callVars, queueVars, faults, sanitizeCalls, hashCalls, validation, quality>>

(* ------------------------------------------------------------------ *)
(* ImageValidator.calculateMatchConfidence                            *)
(* ------------------------------------------------------------------ *)
\* Confidences and scores are percents.

\* the base confidence alone, without the brand and unbranded handling
EcommerceBaseConfidence(nameTokens, branded) == 85

\* calculateEcommerceMatchConfidence: 0.85, 0.95 for a brand that is set and
\* not 'NONE', plus 0.05 capped at 1.0 for a name with at least 3 tokens
\* longer than 2 characters, and 0.75 for an unbranded product whatever
\* came before.
calculateEcommerceMatchConfidence(nameTokens, branded) ==
  LET base == IF branded THEN 95 ELSE 85
      specific == IF nameTokens >= 3 THEN Min(base + 5, 100) ELSE base
  IN IF ~branded THEN 75 ELSE specific

\* what calculateTextSimilarity, calculateAttributeMatch and
\* calculateSizeMatch may return
Scores == {0, 50, 100}

\* what calculateBrandMatch may return: 0.5 for an unbranded product, else 1.0
\* when the filename includes the brand, 0.8 when it includes the brand's
\* first 3 characters, else 0
BrandScores(branded) == IF branded THEN {0, 80, 100} ELSE {50}

\* The else branch of calculateMatchConfidence: the weighted sum, the 0.2
\* bonus when the filename includes the brand (brandScore is 1.0) and the
\* name similarity is above 0.8, and the unbranded formula replacing both.
FilenameMatchConfidence(branded, brandScore, nameScore, attributeScore, sizeScore) ==
  LET weighted == (40 * brandScore + 30 * nameScore + 20 * attributeScore
                   + 10 * sizeScore) \div 100
      bonus == IF branded /\ brandScore = 100 /\ nameScore > 80
               THEN Min(weighted + 20, 100) ELSE weighted
  IN IF ~branded
     THEN (60 * nameScore + 30 * attributeScore + 10 * sizeScore) \div 100
     ELSE bonus

\* the scores of the filename branch added up without their weights
UnweightedMatchConfidence(product, threw, sc) ==
  sc.brand + sc.name + sc.attribute + sc.size

\* calculateMatchConfidence: 0 from the catch, else Math.min(confidence, 1.0)
\* of the branch the filename selects.
calculateMatchConfidence(product, threw, sc) ==
  IF threw THEN 0
  ELSE IF isCrypticFilename(product.filename)
  THEN Min(calculateEcommerceMatchConfidence(product.nameTokens, product.branded), 100)
  ELSE Min(FilenameMatchConfidence(product.branded, sc.brand, sc.name, sc.attribute,
                                   sc.size), 100)

\* the products whose kept images are validated: whether product.brand is
\* set and not 'NONE', the tokens longer than 2 characters of product.name,
\* and the basename of its files
ValidatedProducts == [branded : BOOLEAN, nameTokens : 0..MaxNameTokens, filename : Names]

NoValidation ==
  [product |-> [branded |-> FALSE, nameTokens |-> 0,
                filename |-> [start8 |-> FALSE, words |-> FALSE]],
   results |-> <<>>]

\* the scores of a call that computed none
NoScores == [brand |-> 0, name |-> 0, attribute |-> 0, size |-> 0]

\* One iteration of the result loop of downloadProductImages for a kept
\* image: validateImageMatch computes the confidence of the file and
\* validationResults.push({ filePath, confidence, isMatch }).
PushValidationResult ==
  /\ phase = "validate" /\ Len(validation.results) < MaxMatchCalls
  /\ \E threw \in BOOLEAN, b \in BrandScores(validation.product.branded),
        n \in Scores, a \in Scores, z \in Scores :
       LET computed == ~threw /\ ~isCrypticFilename(validation.product.filename)
           sc == IF computed THEN [brand |-> b, name |-> n, attribute |-> a, size |-> z]
                 ELSE NoScores
           confidence == calculateMatchConfidence(validation.product, threw, sc)
       IN validation' = [validation EXCEPT !.results =
            Append(@, [threw |-> threw, scores |-> sc, confidence |-> confidence,
                       isMatch |-> confidence >= MatchThresholdPct])]
  /\ UNCHANGED <<cfgVars, runVars, dmVars, callVars, queueVars, faults, sanitizeCalls, hashCalls, matchCalls, quality>>

RECURSIVE totalConfidence(_)
totalConfidence(res) ==
  IF res = <<>> THEN 0 ELSE res[1].confidence + totalConfidence(Tail(res))

(* ------------------------------------------------------------------ *)
(* QualityAnalyzer                                                    *)
(* ------------------------------------------------------------------ *)
\* Scores are percents.

Max(a, b) == IF a > b THEN a ELSE b

\* widths and heights (px) and byte lengths of image buffers, on both
\* sides of every limit of the analysis
Sides == {580, 600, 630, 1200, 1250}

Lengths == {9999, 10000, 5000000, 5000001}

ImageBuffers == [width : Sides, height : Sides, length : Lengths]

\* "Math.max(500, Math.min(1200, minSide || 0))"
TargetSize(meta) == Max(500, Min(1200, Min(meta.width, meta.height)))

\* The buffers the square crop may give for a fetched image: targetSize x
\* targetSize, re-encoded as JPEG to some length.
Cropped(meta) ==
  {[width |-> TargetSize(meta), height |-> TargetSize(meta), length |-> l] : l \in Lengths}

\* "aspectRatio >= 0.95 && aspectRatio <= 1.05"
isSquareImage(width, height) == 95 * height <= 100 * width /\ 100 * width <= 105 * height

\* the size requirement checked on the width alone
meetsWidthRequirement(width, height) == width >= 600 /\ width <= 1200

\* "width >= minSize && width <= maxSize && height >= minSize && height <= maxSize"
meetsSizeRequirements(width, height) ==
  width >= 600 /\ width <= 1200 /\ height >= 600 /\ height <= 1200

\* calculateStrictQualityScore
calculateStrictQualityScore(analysis) ==
  Min(100, (IF analysis.isSquare THEN 30 ELSE 0)
           + (IF analysis.meetsSizeRequirements THEN 25 ELSE 0)
           + (analysis.backgroundConfidence * 30) \div 100
           + (IF ~analysis.hasWatermark THEN 10 ELSE 0)
           + (analysis.sharpness * 5) \div 100)

\* generateCacheKey: the md5 of the buffer, one key per content
generateCacheKey(buffer) == buffer

\* the early returns of analyzeImage: "File size too small" / "too large"
SizeIssues(buffer) ==
  (IF buffer.length < 10000 THEN {"File size too small"} ELSE {})
  \cup (IF buffer.length > 5000000 THEN {"File size too large"} ELSE {})

\* What analyzeImage computes for a buffer when sharp reads its metadata:
\* the early return for a length out of range, else the square and size
\* requirements, the fixed background, watermark and sharpness values,
\* isValid and the score.
Analysis(buffer) ==
  IF SizeIssues(buffer) # {}
  THEN [isValid |-> FALSE, score |-> 0, issues |-> SizeIssues(buffer)]
  ELSE LET a == [isSquare |-> isSquareImage(buffer.width, buffer.height),
                 meetsSizeRequirements |-> meetsSizeRequirements(buffer.width, buffer.height),
                 hasPlainBackground |-> TRUE, backgroundConfidence |-> 80,
                 hasWatermark |-> FALSE, sharpness |-> 80]
           issues == (IF ~a.isSquare THEN {"Not square"} ELSE {})
                     \cup (IF ~a.meetsSizeRequirements THEN {"Size out of range"} ELSE {})
                     \cup (IF a.sharpness < 30 THEN {"Image too blurry"} ELSE {})
       IN [isValid |-> issues = {} /\ a.isSquare /\ a.meetsSizeRequirements
                       /\ a.hasPlainBackground /\ ~a.hasWatermark,
           score |-> calculateStrictQualityScore(a),
           issues |-> issues]

\* the catch of analyzeImage
AnalysisFailed == [isValid |-> FALSE, score |-> 0, issues |-> {"Analysis failed"}]

\* the cache as the sequence of its entries in insertion order
CacheKeys(cache) == {cache[i].key : i \in DOMAIN cache}

CacheGet(cache, key) == (CHOOSE i \in DOMAIN cache : cache[i].key = key)

\* cacheAndReturn without the eviction
cacheWithoutLimit(cache, key, result) ==
  IF key \in CacheKeys(cache)
  THEN [i \in DOMAIN cache |-> IF cache[i].key = key
                               THEN [key |-> key, result |-> result] ELSE cache[i]]
  ELSE Append(cache, [key |-> key, result |-> result])

\* cacheAndReturn: "this.cache.set(key, result)", which keeps the place of a
\* key already present, then the first key is deleted when the size
\* exceeds the limit.
cacheAndReturn(cache, key, result) ==
  LET set == cacheWithoutLimit(cache, key, result)
  IN IF Len(set) > CacheLimit THEN Tail(set) ELSE set

NoQuality(pool) == [pool |-> pool, cache |-> <<>>, inflight |-> <<>>, last |-> <<>>]

\* What downloadSingleImage does with the result of analyzeImage: the last
\* call that returned, with the image as fetched, the buffer analysed,
\* whether the result came from the cache, and whether fs.writeFile of the
\* buffer follows ("if (!qualityAnalysis.isValid) throw").
Returned(fetched, buffer, result, hit) ==
  <<[fetched |-> fetched, buffer |-> buffer, result |-> result, hit |-> hit,
     wrote |-> result.isValid]>>

\* downloadSingleImage crops a fetched image (or keeps the buffer as fetched
\* when sharp throws) and calls analyzeImage, which runs up to its first
\* await: a cache hit or a length out of range returns at once.
StartAnalysis ==
  /\ phase = "quality" /\ Len(quality.inflight) < MaxAnalyses
  /\ \E fetched \in quality.pool, cropOk \in BOOLEAN :
       \E buffer \in (IF cropOk THEN Cropped(fetched) ELSE {fetched}) :
         LET key == generateCacheKey(buffer)
         IN IF key \in CacheKeys(quality.cache)
            THEN quality' = [quality EXCEPT !.last =
                   Returned(fetched, buffer, quality.cache[CacheGet(quality.cache, key)].result,
                            TRUE)]
            ELSE IF SizeIssues(buffer) # {}
            THEN quality' = [quality EXCEPT
                   !.cache = cacheAndReturn(@, key, Analysis(buffer)),
                   !.last = Returned(fetched, buffer, Analysis(buffer), FALSE)]
            ELSE quality' = [quality EXCEPT
                   !.inflight = Append(@, [fetched |-> fetched, buffer |-> buffer])]
  /\ UNCHANGED <<cfgVars, runVars, dmVars, callVars, queueVars, faults, sanitizeCalls, hashCalls, matchCalls,
                 validation>>

\* sharp(imageBuffer).metadata() resolves for an analysis in flight: the
\* result is computed, cached and returned; or it throws, and the catch
\* returns a failed analysis that is not cached.
FinishAnalysis(k) ==
  /\ phase = "quality" /\ k \in DOMAIN quality.inflight
  /\ LET t == quality.inflight[k]
         rest == SubSeq(quality.inflight, 1, k - 1)
                 \o SubSeq(quality.inflight, k + 1, Len(quality.inflight))
     IN \E metadataOk \in BOOLEAN :
          IF metadataOk
          THEN quality' = [quality EXCEPT
                 !.inflight = rest,
                 !.cache = cacheAndReturn(@, generateCacheKey(t.buffer), Analysis(t.buffer)),
                 !.last = Returned(t.fetched, t.buffer, Analysis(t.buffer), FALSE)]
          ELSE quality' = [quality EXCEPT
                 !.inflight = rest,
                 !.last = Returned(t.fetched, t.buffer, AnalysisFailed, FALSE)]
  /\ UNCHANGED <<cfgVars, runVars, dmVars, callVars, queueVars, faults, sanitizeCalls, hashCalls, matchCalls,
                 validation>>

(* ------------------------------------------------------------------ *)
(* Helpers.sanitizeFilename                                           *)
(* ------------------------------------------------------------------ *)
\* A string is the sequence of its characters.

\* the characters of the class [<>:"/\\|?*]
INVALID_CHARS == {"<", ">", ":", "\"", "/", "\\", "|", "?", "*"}

\* characters \s matches
WHITESPACE == {" ", "\t"}

\* the characters of the names handed to sanitizeFilename
NameChars == INVALID_CHARS \cup WHITESPACE \cup {"a"}

\* the two whitespace replacements and the cut alone
sanitizeWhitespaceOnly(filename) ==
  LET RECURSIVE collapse(_)
      collapse(t) ==
        IF t = <<>> THEN <<>>
        ELSE IF Head(t) \in WHITESPACE
        THEN IF Len(t) > 1 /\ t[2] \in WHITESPACE THEN collapse(Tail(t))
             ELSE <<" ">> \o collapse(Tail(t))
        ELSE <<Head(t)>> \o collapse(Tail(t))
      RECURSIVE trimStart(_)
      trimStart(t) ==
        IF t # <<>> /\ Head(t) \in WHITESPACE THEN trimStart(Tail(t)) ELSE t
      RECURSIVE trimEnd(_)
      trimEnd(t) ==
        IF t # <<>> /\ t[Len(t)] \in WHITESPACE THEN trimEnd(SubSeq(t, 1, Len(t) - 1)) ELSE t
      sanitized == trimEnd(trimStart(collapse(filename)))
  IN IF Len(sanitized) > maxFolderNameLength
     THEN SubSeq(sanitized, 1, maxFolderNameLength)
     ELSE sanitized

\* Helpers.sanitizeFilename: ".replace(/[<>:"/\\|?*]/g, '_')
\* .replace(/\s+/g, ' ').trim()", then substring(0, maxFolderNameLength)
\* when the result is longer.
sanitizeFilename(filename) ==
  sanitizeWhitespaceOnly([i \in DOMAIN filename |->
                            IF filename[i] \in INVALID_CHARS THEN "_" ELSE filename[i]])

\* Helpers.sanitizeFilename is called on a name.
CallSanitizeFilename ==
  /\ phase = "sanitize" /\ sanitizeCalls = <<>>
  /\ \E n \in 0..MaxNameLen :
       \E filename \in [1..n -> NameChars] :
         sanitizeCalls' = <<[input |-> filename, output |-> sanitizeFilename(filename)]>>
  /\ UNCHANGED <<cfgVars, runVars, dmVars, callVars, queueVars, faults, hashCalls, matchCalls,
                 validation, quality>>

(* ------------------------------------------------------------------ *)
(* FileManager and ProductImageDownloader.run                          *)
(* ------------------------------------------------------------------ *)

\* A product object as parseProductRow creates it; urls are the URLs
\* searchImages will return for it, each given as the image it serves.
\* folderName stands for both product.folderPath and product.folderName,
\* which are always set together.
NewProduct(id, urls) ==
  [itemid |-> id, urls |-> urls, folderName |-> <<>>, confSum |-> 0, confCount |-> 0,
   isNIF |-> FALSE, isNS |-> FALSE, moves |-> 0, handled |-> {}]

\* FileManager.setupFolderStructure: ensureDir of every product's base
\* folder, and product.folderPath / folderName are set.
SetupFolderStructure ==
  /\ phase = "setup"
  /\ dirs' = dirs \cup {Base(products[i].itemid) : i \in DOMAIN products}
  /\ products' = [i \in DOMAIN products |->
                    [products[i] EXCEPT !.folderName = Base(products[i].itemid)]]
  /\ phase' = "search"
  /\ cur' = 1
  /\ UNCHANGED <<cfgVars, unitVars, downloadResults, report, dmVars, callVars, queueVars, faults>>

\* "downloadResults.find(r => r.itemId === product.itemid)": the first one
HasResult(res, id) == \E j \in DOMAIN res : res[j].itemId = id

FindResult(res, id) ==
  res[CHOOSE j \in DOMAIN res :
            /\ res[j].itemId = id
            /\ \A l \in 1..(j - 1) : res[l].itemId # id]

\* main.js step 4: "!result || result.downloaded === 0"
IsNifProduct(p, res) ==
  ~HasResult(res, p.itemid) \/ FindResult(res, p.itemid).downloaded = 0

\* the average confidence c of a product satisfies c < 0.7 : sum/count < 70%
AvgBelowThreshold(sum, count) == count = 0 \/ sum < MatchThresholdPct * count

AvgPositive(sum, count) == count > 0 /\ sum > 0

\* main.js step 5: "(p.imageMatchingConfidence || 0) < 0.7 &&
\* (p.imageMatchingConfidence || 0) > 0"
IsLowConfidence(p) ==
  AvgBelowThreshold(p.confSum, p.confCount) /\ AvgPositive(p.confSum, p.confCount)

\* the next product after index c the NIF loop / the NS loop handles
NextNif(c) ==
  LET S == {i \in DOMAIN products : i > c /\ IsNifProduct(products[i], downloadResults)}
  IN IF S = {} THEN Len(products) + 1 ELSE CHOOSE i \in S : \A j \in S : i <= j

NextNs(c) ==
  LET S == {i \in DOMAIN products : i > c /\ IsLowConfidence(products[i])}
  IN IF S = {} THEN Len(products) + 1 ELSE CHOOSE i \in S : \A j \in S : i <= j

\* main.js step 4: processProducts has returned; nifProducts is filtered.
RunStep4 ==
  /\ phase = "search" /\ cur > Len(products)
  /\ phase' = "nif"
  /\ cur' = NextNif(0)
  /\ UNCHANGED <<cfgVars, unitVars, products, dirs, downloadResults, report, dmVars,
                 callVars, queueVars, faults>>

\* fs-extra move(src, dest) without overwrite: fails when dest exists
CanMove(d, dest) == dest \notin d

Move(d, src, dest) == (d \ {src}) \cup {dest}

\* FileManager.handleNoImageFound, one product of the loop: the current
\* folder is renamed to the NIF name, or the NIF folder is created. An error
\* (move onto an existing folder) is caught and the product left as it was.
HandleNoImageFound ==
  /\ phase = "nif" /\ cur <= Len(products)
  /\ LET p == products[cur]
         current == IF p.folderName # <<>> THEN p.folderName ELSE Base(p.itemid)
         nif == <<p.itemid, "NIF">>
     IN IF current \in dirs
        THEN IF CanMove(dirs, nif)
             THEN /\ dirs' = Move(dirs, current, nif)
                  /\ products' = [products EXCEPT ![cur].folderName = nif,
                                                  ![cur].isNIF = TRUE,
                                                  ![cur].moves = @ + 1,
                                                  ![cur].handled = @ \cup {"NIF"}]
             ELSE /\ dirs' = dirs
                  /\ products' = [products EXCEPT ![cur].handled = @ \cup {"NIF"}]
        ELSE /\ dirs' = dirs \cup {nif}
             /\ products' = [products EXCEPT ![cur].folderName = nif,
                                             ![cur].isNIF = TRUE,
                                             ![cur].handled = @ \cup {"NIF"}]
  /\ cur' = NextNif(cur)
  /\ UNCHANGED <<cfgVars, unitVars, phase, downloadResults, report, dmVars, callVars,
                 queueVars, faults>>

\* main.js step 5: lowConfidenceProducts is filtered.
RunStep5 ==
  /\ phase = "nif" /\ cur > Len(products)
  /\ phase' = "ns"
  /\ cur' = NextNs(0)
  /\ UNCHANGED <<cfgVars, unitVars, products, dirs, downloadResults, report, dmVars,
                 callVars, queueVars, faults>>

\* FileManager.handleLowConfidenceMatches, one product of the loop: the base
\* folder is renamed to the NS name, or the NS folder is created.
HandleLowConfidenceMatches ==
  /\ phase = "ns" /\ cur <= Len(products)
  /\ LET p == products[cur]
         original == Base(p.itemid)
         ns == <<p.itemid, "NS">>
     IN IF original \in dirs
        THEN IF CanMove(dirs, ns)
             THEN /\ dirs' = Move(dirs, original, ns)
                  /\ products' = [products EXCEPT ![cur].folderName = ns,
                                                  ![cur].isNS = TRUE,
                                                  ![cur].moves = @ + 1,
                                                  ![cur].handled = @ \cup {"NS"}]
             ELSE /\ dirs' = dirs
                  /\ products' = [products EXCEPT ![cur].handled = @ \cup {"NS"}]
        ELSE /\ dirs' = dirs \cup {ns}
             /\ products' = [products EXCEPT ![cur].folderName = ns,
                                             ![cur].isNS = TRUE,
                                             ![cur].handled = @ \cup {"NS"}]
  /\ cur' = NextNs(cur)
  /\ UNCHANGED <<cfgVars, unitVars, phase, downloadResults, report, dmVars, callVars,
                 queueVars, faults>>

\* generateSummaryXlsx: "resultMap.set(r.itemId, r)" keeps the last result
\* of an item id.
LastResult(res, id) ==
  res[CHOOSE j \in DOMAIN res :
            /\ res[j].itemId = id
            /\ \A l \in (j + 1)..Len(res) : res[l].itemId # id]

\* generateSummaryXlsx: the STATUS of one product
SummaryStatus(p, res) ==
  LET count == IF HasResult(res, p.itemid)
               THEN LastResult(res, p.itemid).downloaded ELSE 0
  IN IF p.isNIF \/ count = 0 THEN "NIF"
     ELSE IF p.isNS \/ (AvgPositive(p.confSum, p.confCount)
                        /\ AvgBelowThreshold(p.confSum, p.confCount)) THEN "NS"
     ELSE "Image found"

\* main.js step 6: the summary report is generated; the run ends.
GenerateSummaryReport ==
  /\ phase = "ns" /\ cur > Len(products)
  /\ report' = [i \in DOMAIN products |-> SummaryStatus(products[i], downloadResults)]
  /\ phase' = "done"
  /\ UNCHANGED <<cfgVars, unitVars, products, cur, dirs, downloadResults, dmVars, callVars,
                 queueVars, faults>>

(* ------------------------------------------------------------------ *)
(* Specifications of a run                                            *)
(* ------------------------------------------------------------------ *)

ZeroStats == [totalAttempted |-> 0, successful |-> 0, failed |-> 0,
              qualityRejected |-> 0, duplicatesSkipped |-> 0]

\* the state of a freshly constructed DownloadManager and of an empty
\* output directory
InitManager ==
  /\ itemImageCounts = [id \in ItemIds |-> 0]
  /\ downloadedHashes = {}
  /\ processedHashes = {}
  /\ stats = ZeroStats
  /\ task = <<>>
  /\ chunkEnd = 0
  /\ results = <<>>
  /\ acc = [i |-> 1, downloaded |-> 0, failed |-> 0, confSum |-> 0]
  /\ files = [id \in ItemIds |-> [img \in AllImages |-> 0]]
  /\ downloadQueue = <<>>
  /\ activeDownloads = 0
  /\ immediates = 0
  /\ hashCalls = <<>>
  /\ sanitizeCalls = <<>>
  /\ matchCalls = <<>>
  /\ search = [called |-> FALSE, filteredUrls |-> <<>>, again |-> <<>>]
  /\ dirs = {}
  /\ downloadResults = <<>>
  /\ report = <<>>
  /\ cur = 1

\* the URL lists of up to n URLs serving images of Images
UrlLists(n) == UNION {[1..l -> {Url(i) : i \in Images}] : l \in 0..n}

\* spreadsheets of 1..MaxRows rows (Item IDs may repeat), each row with up
\* to MaxUrlsRun candidate URLs
Init ==
  /\ InitManager
  /\ concurrentDownloads \in 1..MaxConcurrent
  /\ retryAttempts = 1
  /\ faults = MaxFaults
  /\ phase = "setup"
  /\ candidates = <<>>
  /\ validation = NoValidation
  /\ quality = NoQuality({})
  /\ \E n \in 1..MaxRows :
       products \in [1..n -> {NewProduct(id, u) : id \in ItemIds, u \in UrlLists(MaxUrlsRun)}]

\* a spreadsheet of one row with up to MaxUrls candidate URLs, every URL
\* serving an image of its own
InitCap ==
  /\ InitManager
  /\ concurrentDownloads \in 1..MaxConcurrent
  /\ retryAttempts = 1
  /\ faults = MaxFaults
  /\ phase = "setup"
  /\ candidates = <<>>
  /\ validation = NoValidation
  /\ quality = NoQuality({})
  /\ products \in [1..1 -> {NewProduct(1, [k \in 1..l |-> Url(k)]) : l \in 0..MaxUrls}]

Worker ==
  \E k \in 1..MaxUrls :
    \/ HeadDone(k)
    \/ GetDone(k)
    \/ HashDone(k)
    \/ AnalyzeDone(k)
    \/ WriteDone(k)
    \/ StatDone(k)

Next ==
  \/ SetupFolderStructure
  \/ NoImagesFound
  \/ DownloadProductImages
  \/ Worker
  \/ NextChunk
  \/ CollectResults
  \/ ResultStep
  \/ FinishProduct
  \/ RunStep4
  \/ HandleNoImageFound
  \/ RunStep5
  \/ HandleLowConfidenceMatches
  \/ GenerateSummaryReport

Spec == Init /\ [][Next]_vars

SpecCap == InitCap /\ [][Next]_vars

\* a DownloadManager whose queue is fed by up to MaxTasks calls of
\* downloadImageWithQueue
InitQueue ==
  /\ InitManager
  /\ concurrentDownloads \in 1..MaxConcurrent
  /\ retryAttempts \in 1..MaxRetryAttempts
  /\ faults = MaxFaults
  /\ phase = "queue"
  /\ candidates = <<>>
  /\ validation = NoValidation
  /\ quality = NoQuality({})
  /\ products = <<>>

NextQueue ==
  \/ DownloadImageWithQueue
  \/ ProcessQueueTick
  \/ Worker
  \/ \E k \in 1..MaxTasks : WakeUp(k)

SpecQueue == InitQueue /\ [][NextQueue]_vars

\* the queue with its scheduling: as InitQueue, with retries and no fault
\* other than the rejections of downloadSingleImage
InitQueueLive ==
  /\ InitManager
  /\ concurrentDownloads \in 1..MaxConcurrent
  /\ retryAttempts = MaxRetryAttempts
  /\ faults = 0
  /\ phase = "queue"
  /\ candidates = <<>>
  /\ validation = NoValidation
  /\ quality = NoQuality({})
  /\ products = <<>>

NextQueueLive ==
  \/ NextQueue
  \/ CallCleanup
  \/ CleanupDone

\* Every attempt in progress takes its next step (each request, read and
\* write ends), every setImmediate callback and every timer of
\* Helpers.retry and of cleanup() runs; the caller may stop enqueuing and
\* need not call cleanup().
SpecQueueLive ==
  /\ InitQueueLive /\ [][NextQueueLive]_vars
  /\ WF_vars(Worker) /\ WF_vars(ProcessQueueTick) /\ WF_vars(CleanupDone)
  /\ \A k \in 1..MaxTasks : WF_vars(WakeUp(k))

\* the extensions, validity and markers of the candidate URLs of the model
CandidateUrls(img) ==
  {[img |-> img, ext |-> e, valid |-> v, marker |-> m] :
     e \in {"", "jpg", "JPG", "gif"}, v \in BOOLEAN, m \in {"", "logo", "thumb"}}

\* a run of one row for which the search engines return up to MaxCandidates
\* URLs, each serving an image of its own; the network is free of faults
InitFilter ==
  /\ InitManager
  /\ concurrentDownloads \in 1..MaxConcurrent
  /\ retryAttempts = 1
  /\ faults = 0
  /\ phase = "candidates"
  /\ products = <<NewProduct(1, <<>>)>>
  /\ validation = NoValidation
  /\ quality = NoQuality({})
  /\ \E l \in 0..MaxCandidates :
       candidates \in {c \in [1..l -> UNION {CandidateUrls(i) : i \in 1..MaxCandidates}] :
                         \A k \in 1..l : c[k].img = k}

NextFilter ==
  \/ SearchImages
  \/ DownloadUnfiltered
  \/ Next

SpecFilter == InitFilter /\ [][NextFilter]_vars

\* the hash functions called on buffers of the caller's choice
InitHash ==
  /\ InitManager
  /\ concurrentDownloads = 1
  /\ retryAttempts = 1
  /\ faults = 0
  /\ phase = "hash"
  /\ candidates = <<>>
  /\ validation = NoValidation
  /\ quality = NoQuality({})
  /\ products = <<>>

SpecHash == InitHash /\ [][GenerateImageHash]_vars

\* kept images of any origin validated for items of any id
InitMatch ==
  /\ InitManager
  /\ concurrentDownloads = 1
  /\ retryAttempts = 1
  /\ faults = 0
  /\ phase = "match"
  /\ candidates = <<>>
  /\ validation = NoValidation
  /\ quality = NoQuality({})
  /\ products = <<>>

SpecMatch == InitMatch /\ [][ValidateImageMatch]_vars

\* the kept images of a product of any brand, name and item id validated
InitValidation ==
  /\ InitManager
  /\ concurrentDownloads = 1
  /\ retryAttempts = 1
  /\ faults = 0
  /\ phase = "validate"
  /\ candidates = <<>>
  /\ products = <<>>
  /\ quality = NoQuality({})
  /\ \E p \in ValidatedProducts : validation = [product |-> p, results |-> <<>>]

SpecValidation == InitValidation /\ [][PushValidationResult]_vars

NextQuality == StartAnalysis \/ \E k \in 1..MaxAnalyses : FinishAnalysis(k)

\* the quality gate applied, any number of times, to one fetched image of
\* any dimensions and length
InitQuality ==
  /\ InitManager
  /\ concurrentDownloads = 1
  /\ retryAttempts = 1
  /\ faults = 0
  /\ phase = "quality"
  /\ candidates = <<>>
  /\ products = <<>>
  /\ validation = NoValidation
  /\ \E fetched \in ImageBuffers : quality = NoQuality({fetched})

SpecQuality == InitQuality /\ [][NextQuality]_vars

\* the quality gate applied to square images of three sizes, whose crops
\* are re-encoded to any length: more contents than the cache may hold
InitCache ==
  /\ InitManager
  /\ concurrentDownloads = 1
  /\ retryAttempts = 1
  /\ faults = 0
  /\ phase = "quality"
  /\ candidates = <<>>
  /\ products = <<>>
  /\ validation = NoValidation
  /\ quality = NoQuality({[width |-> z, height |-> z, length |-> 10000] : z \in {600, 630, 1200}})

SpecCache == InitCache /\ [][NextQuality]_vars

\* the scores of kept images: their quality and their match confidence
SpecScores == (InitValidation \/ InitQuality) /\ [][PushValidationResult \/ NextQuality]_vars

\* sanitizeFilename called on any name
InitSanitize ==
  /\ InitManager
  /\ concurrentDownloads = 1
  /\ retryAttempts = 1
  /\ faults = 0
  /\ phase = "sanitize"
  /\ candidates = <<>>
  /\ products = <<>>
  /\ validation = NoValidation
  /\ quality = NoQuality({})

SpecSanitize == InitSanitize /\ [][CallSanitizeFilename]_vars

\* both ways downloads are started: a single-row run through
\* processDownloadsInChunks, or calls of downloadImageWithQueue
SpecFlight == (InitCap \/ InitQueue) /\ [][Next \/ NextQueue]_vars

(* ------------------------------------------------------------------ *)
(* Observations the claims are stated on                              *)
(* ------------------------------------------------------------------ *)

RECURSIVE FilesUpTo(_, _)
FilesUpTo(id, n) == IF n < 0 THEN 0 ELSE files[id][n] + FilesUpTo(id, n - 1)

\* the number of image files in the folders of item id
FilesOf(id) == FilesUpTo(id, MaxUrls)

\* the calls of the current downloadProductImages call that kept their image
Accepted == {k \in DOMAIN task : task[k].pc = "done"}

\* a call that was started and has not settled (a call sleeping between two
\* attempts of Helpers.retry still holds its slot)
InFlight(t) == t.pc \notin {"queued", "done", "failed"}

NumInFlight == Cardinality({k \in DOMAIN task : InFlight(task[k])})

\* the rows whose Item ID no other row has
UniqueId(i) == \A j \in DOMAIN products : j # i => products[j].itemid # products[i].itemid

\* the suffixes of the directories of item id that exist
SuffixesOf(id) == {sfx \in SUFFIXES : <<id, sfx>> \in dirs}

(* ------------------------------------------------------------------ *)
(* Claims                                                             *)
(* ------------------------------------------------------------------ *)

\* C1: with the per-item cap of 5, under every interleaving of the workers
\* of an item at most 5 image files are ever written for that item.
C1_AtMostCapFilesWritten == \A id \in ItemIds : FilesOf(id) <= ItemCap

\* C2: in a downloadProductImages call the number of images kept for the
\* item (files written, results counted as downloaded) is between 0 and
\* config.search.maxImagesPerItem, whatever the order of the completions.
C2_KeptWithinMaxImagesPerItem ==
  /\ FilesOf(1) \in 0..MaxImagesPerItem
  /\ Cardinality(Accepted) \in 0..MaxImagesPerItem
  /\ phase = "results" => acc.downloaded \in 0..MaxImagesPerItem
  /\ \A j \in DOMAIN downloadResults :
       downloadResults[j].downloaded \in 0..MaxImagesPerItem

\* C2 witness: a row with more URLs than the maximum ends with exactly
\* maxImagesPerItem images kept.
C2_Witness ==
  /\ Len(products[1].urls) > MaxImagesPerItem
  /\ downloadResults # <<>>
  /\ downloadResults[1].downloaded = MaxImagesPerItem
  /\ FilesOf(1) = MaxImagesPerItem

\* C3: under every interleaving of the workers of an item, two fetched
\* images with the same fingerprint are never both accepted.
C3_NoTwoDuplicatesAccepted ==
  \A k1, k2 \in Accepted :
    k1 # k2 => Fingerprint(task[k1].img) # Fingerprint(task[k2].img)

\* C4: when the images of an item are processed one after the other and the
\* fingerprints of two of them differ in at most 6 of 64 bits (similarity
\* >= 0.90), the later one is rejected: they are never both kept.
C4_NearDuplicateRejected ==
  concurrentDownloads = 1 =>
    \A k1, k2 \in Accepted :
      k1 < k2 => ~SimilarFingerprints(Fingerprint(task[k1].img), Fingerprint(task[k2].img))

\* C5: duplicate detection is scoped per item: a download is rejected as a
\* duplicate only of an image kept for the same item, never of one kept for
\* an earlier item.
C5_DuplicateOnlyWithinItem ==
  \A k \in DOMAIN task :
    (task[k].pc = "failed" /\ task[k].err = "dup") => files[task[k].item][task[k].img] > 0

\* C6: once all downloads of an item are done, its classification (folder
\* suffix and report status) is NoImageFound when no image was kept, else
\* NotSure when the average match confidence of the kept images is below
\* 0.70, else Found: a function of these two values only.
C6_ClassifiedByKeptAndConfidence ==
  phase = "done" =>
    \A i \in DOMAIN products :
      UniqueId(i) =>
        LET kept == products[i].confCount
            confSum == products[i].confSum
            expected == IF kept = 0 THEN "NIF"
                        ELSE IF confSum < MatchThresholdPct * kept THEN "NS"
                        ELSE "Image found"
        IN /\ report[i] = expected
           /\ SuffixesOf(products[i].itemid) =
                {IF expected = "Image found" THEN "" ELSE expected}

\* C7: at every moment of a run, at most one of the directories of an item
\* (base name, base name + NS suffix, base name + NIF suffix) exists.
C7_AtMostOneDirectoryPerItem ==
  \A id \in ItemIds : Cardinality(SuffixesOf(id)) <= 1

\* C8: in one run the folder of an item is renamed at most once, no item is
\* handled by both the No-Image-Found step and the Not-Sure step, and no
\* item is marked both isNIF and isNS.
C8_OneTerminalStatePerItem ==
  \A i \in DOMAIN products :
    /\ products[i].moves <= 1
    /\ products[i].handled # {"NIF", "NS"}
    /\ ~(products[i].isNIF /\ products[i].isNS)

\* C9: in the pipeline run by downloadProductImages, a URL whose first fetch
\* times out is fetched again (and, the next attempt succeeding, ends
\* counted as downloaded): no call of the pipeline settles after a timeout
\* with a single fetch.
C9_TimedOutFetchIsFetchedAgain ==
  \A k \in DOMAIN task :
    (~task[k].viaQueue /\ Settled(task[k]) /\ task[k].timeouts >= 1) =>
      task[k].gets >= 2

\* C10: a fetch that fails transiently at every attempt is retried
\* retryAttempts times after its first attempt (retryAttempts + 1 attempts in
\* all) before it fails with the last error, and the wait after failed
\* attempt k is base * multiplier^(k-1).
C10_RetriedRetryAttemptsTimes ==
  \A k \in DOMAIN task :
    task[k].viaQueue =>
      /\ (task[k].pc = "failed" /\ task[k].timeouts = task[k].attempt) =>
           task[k].attempt = retryAttempts + 1
      /\ task[k].pc = "sleep" =>
           task[k].delay * Pow(BackoffDen, task[k].attempt - 1) =
             BaseDelay * Pow(BackoffNum, task[k].attempt - 1)

\* C11: a download rejected by validation (extension, content type, decoded
\* format), as a duplicate or by the quality gate is not retried:
\* downloadSingleImage is never invoked again for that URL after the
\* rejection.
C11_RejectedDownloadNotRetried ==
  \A k \in DOMAIN task :
    task[k].rejectedAt > 0 => task[k].attempt = task[k].rejectedAt

\* C12: at every moment the number of downloads in flight is at most
\* config.download.concurrentDownloads, for calls of downloadImageWithQueue
\* and for the chunks of processDownloadsInChunks, and activeDownloads never
\* goes below 0.
C12_InFlightWithinConcurrency ==
  /\ NumInFlight <= concurrentDownloads
  /\ activeDownloads >= 0
  /\ activeDownloads <= concurrentDownloads

\* C12 witness: every slot is taken and a further download waits in the queue.
C12_Witness ==
  /\ NumInFlight = concurrentDownloads
  /\ activeDownloads = concurrentDownloads
  /\ downloadQueue # <<>>

\* C13: whenever downloadSingleImage ends in failure for a URL, no image
\* file for that URL has been written to the item's directory.
C13_FailedDownloadLeavesNoFile ==
  \A k \in DOMAIN task : task[k].pc = "failed" => task[k].wrote = 0

\* C14: if the item's counter has reached the cap when downloadSingleImage
\* is called, the call fails at once: no HEAD or GET request is issued and
\* no file is written for that URL.
C14_CapReachedFailsBeforeAnyRequest ==
  \A k \in DOMAIN task :
    /\ (task[k].pc = "failed" /\ task[k].err = "cap") =>
         task[k].heads = 0 /\ task[k].gets = 0 /\ task[k].wrote = 0
    /\ task[k].heads > 0 => task[k].currentCount < ItemCap

\* C14 witness: the counter of the item is at the cap and a call has failed
\* for that reason.
C14_Witness ==
  \E k \in DOMAIN task :
    /\ task[k].pc = "failed" /\ task[k].err = "cap"
    /\ itemImageCounts[task[k].item] >= ItemCap

C18_FingerprintDeterministic ==
  \A i, j \in DOMAIN hashCalls :
    (hashCalls[i].fn = hashCalls[j].fn /\ hashCalls[i].buffer = hashCalls[j].buffer) =>
      hashCalls[i].value = hashCalls[j].value

\* C19: whatever errors occur while searching or downloading a product,
\* processProducts yields exactly one result per input product, in input
\* order: the products before the current one each have their result, and
\* once processProducts has returned every product has one.
C19_OneResultPerProductInOrder ==
  /\ Len(downloadResults) <= Len(products)
  /\ \A i \in DOMAIN downloadResults : downloadResults[i].itemId = products[i].itemid
  /\ phase = "search" => Len(downloadResults) = cur - 1
  /\ phase \in {"download", "results"} => Len(downloadResults) = cur - 1
  /\ phase \in {"nif", "ns", "done"} => Len(downloadResults) = Len(products)

\* processProducts has returned; a product whose directory could not be
\* made is followed by one whose images were downloaded
C19_Witness ==
  /\ phase \in {"nif", "ns", "done"}
  /\ \E i, j \in DOMAIN products :
       /\ i < j
       /\ products[i].urls # <<>> /\ downloadResults[i].attempted = 0
       /\ downloadResults[j].downloaded > 0

\* C20: the match mode used for a kept image is chosen from the filename of
\* the URL the image came from: descriptive (filename) mode when that
\* filename contains recognizable words, and opaque (e-commerce) mode only
\* when that filename is an opaque identifier.
C20_ModeFromOriginatingFilename ==
  \A i \in DOMAIN matchCalls :
    /\ matchCalls[i].urlName.words => matchCalls[i].mode = "filename"
    /\ matchCalls[i].mode = "ecommerce" => isCrypticFilename(matchCalls[i].urlName)

\* C21: in opaque mode the confidence is 0.75 for every unbranded item, and
\* for a branded item 0.95, or 1.0 when the product name has at least 3
\* tokens longer than 2 characters, so never below the unbranded confidence;
\* an item with 2 kept opaque unbranded images has average 0.75, which is
\* not below the threshold, and is not renamed to the NS name.
C21_OpaqueConfidenceByBrand ==
  LET p == validation.product
      res == validation.results
      opaque(i) == ~res[i].threw /\ isCrypticFilename(p.filename)
  IN /\ \A i \in DOMAIN res :
          opaque(i) =>
            /\ ~p.branded => res[i].confidence = 75
            /\ (p.branded /\ p.nameTokens < 3) => res[i].confidence = 95
            /\ (p.branded /\ p.nameTokens >= 3) => res[i].confidence = 100
            /\ p.branded => res[i].confidence >= 75
     /\ (Len(res) = 2 /\ ~p.branded /\ \A i \in DOMAIN res : opaque(i)) =>
          /\ totalConfidence(res) = 2 * 75
          /\ ~AvgBelowThreshold(totalConfidence(res), Len(res))

\* two kept images of an unbranded product with opaque file names
C21_Witness ==
  /\ Len(validation.results) = 2
  /\ ~validation.product.branded
  /\ isCrypticFilename(validation.product.filename)
  /\ \A i \in DOMAIN validation.results : ~validation.results[i].threw

\* C22: the quality score of calculateStrictQualityScore and the match
\* confidence of calculateMatchConfidence (either mode, branded or not,
\* with or without the bonus, and from the catch) lie in [0,1], and so does
\* the average confidence of an item.
C22_ScoresWithinUnitInterval ==
  /\ \A i \in DOMAIN quality.last :
       quality.last[i].result.score >= 0 /\ quality.last[i].result.score <= 100
  /\ \A i \in DOMAIN validation.results :
       validation.results[i].confidence >= 0 /\ validation.results[i].confidence <= 100
  /\ totalConfidence(validation.results) >= 0
  /\ totalConfidence(validation.results) <= 100 * Len(validation.results)

\* two kept images of a branded product validated by file name, one with
\* the bonus and one from the catch
C22_Witness ==
  /\ Len(validation.results) = 2
  /\ validation.product.branded
  /\ validation.results[1].scores.brand = 100 /\ validation.results[1].scores.name = 100
  /\ validation.results[1].confidence = 100
  /\ validation.results[2].threw

\* C23: an image whose match confidence is below the match threshold is
\* still kept: the result loop counts every fulfilled download as downloaded
\* and leaves its file on disk, and no step of the run removes a file.
C23_LowMatchStillKept ==
  [][/\ (phase = "results" /\ acc' # acc) =>
          /\ files' = files
          /\ IsKept(results[acc.i]) => acc'.downloaded = acc.downloaded + 1
     /\ \A id \in ItemIds, img \in AllImages : files'[id][img] >= files[id][img]]_vars

\* the kept images of the current product have an average confidence below
\* the threshold and their files are on disk
C23_Witness ==
  /\ phase = "results"
  /\ acc.downloaded >= 1
  /\ acc.confSum < MatchThresholdPct * acc.downloaded
  /\ FilesOf(products[cur].itemid) >= acc.downloaded

\* C24 as stated: sanitizeFilename replaces each of the characters
\* < > : " / \ | ? * by an underscore and leaves the other characters in
\* place, so its result contains none of these characters and is at most
\* maxFolderNameLength characters long.
C24_OnlyInvalidCharsReplaced ==
  \A c \in DOMAIN sanitizeCalls :
    LET in == sanitizeCalls[c].input
        out == sanitizeCalls[c].output
    IN /\ out = [i \in DOMAIN in |-> IF in[i] \in INVALID_CHARS THEN "_" ELSE in[i]]
       /\ \A i \in DOMAIN out : out[i] \notin INVALID_CHARS
       /\ Len(out) <= maxFolderNameLength

\* C24, amended: the result of sanitizeFilename contains none of the
\* characters < > : " / \ | ? * and is at most maxFolderNameLength characters
\* long; for a name without whitespace that is not longer than the limit,
\* each of these characters is replaced by an underscore and the other
\* characters stay in place.
C24_InvalidCharsReplacedAndBounded ==
  \A c \in DOMAIN sanitizeCalls :
    LET in == sanitizeCalls[c].input
        out == sanitizeCalls[c].output
    IN /\ \A i \in DOMAIN out : out[i] \notin INVALID_CHARS
       /\ Len(out) <= maxFolderNameLength
       /\ (Len(in) <= maxFolderNameLength /\ \A i \in DOMAIN in : in[i] \notin WHITESPACE) =>
            out = [i \in DOMAIN in |-> IF in[i] \in INVALID_CHARS THEN "_" ELSE in[i]]

\* a name with an invalid character and a letter, within the limit
C24_Witness ==
  \E c \in DOMAIN sanitizeCalls :
    /\ Len(sanitizeCalls[c].input) = maxFolderNameLength
    /\ \E i \in DOMAIN sanitizeCalls[c].input : sanitizeCalls[c].input[i] \in INVALID_CHARS
    /\ \E i \in DOMAIN sanitizeCalls[c].input : sanitizeCalls[c].input[i] = "a"
    /\ \E i \in DOMAIN sanitizeCalls[c].output : sanitizeCalls[c].output[i] = "_"

\* C25: an item is classified only after every download attempt of the item
\* has settled: the result loop that computes the average confidence starts
\* with every call of the item started and settled, and no call is in flight
\* while the average is computed or a folder is renamed to the NIF or NS name.
C25_ClassifiedAfterDownloadsSettled ==
  /\ [](phase \in {"results", "nif", "ns", "done"} =>
          \A k \in DOMAIN task : ~InFlight(task[k]))
  /\ [][(phase = "download" /\ phase' = "results") =>
          \A k \in DOMAIN task : Settled(task[k])]_vars

\* a folder was renamed for an item with two download attempts
C25_Witness ==
  /\ phase \in {"nif", "ns", "done"}
  /\ \E i \in DOMAIN products :
       /\ products[i].moves >= 1
       /\ downloadResults[i].attempted >= 2

\* C26: an image is kept only if the decoded dimensions of the image as
\* fetched pass the geometry gate: its width/height ratio lies in the
\* near-square band and both its width and its height lie in the window
\* of 600 to 1200 px; a fetched image outside is never written to disk.
C26_FetchedImagePassesGeometryGate ==
  \A i \in DOMAIN quality.last :
    quality.last[i].wrote =>
      /\ isSquareImage(quality.last[i].fetched.width, quality.last[i].fetched.height)
      /\ meetsSizeRequirements(quality.last[i].fetched.width, quality.last[i].fetched.height)

C28_CacheBoundedOldestEvicted ==
  /\ [](/\ Len(quality.cache) <= CacheLimit
        /\ \A i, j \in DOMAIN quality.cache :
             quality.cache[i].key = quality.cache[j].key => i = j
        /\ \A i \in DOMAIN quality.last :
             LET c == quality.last[i]
             IN /\ ~c.hit /\ c.result # AnalysisFailed =>
                    generateCacheKey(c.buffer) \in CacheKeys(quality.cache)
                /\ c.hit => /\ c.result.isValid = Analysis(c.buffer).isValid
                            /\ c.result.score = Analysis(c.buffer).score)
  /\ [][(quality.cache' # quality.cache /\ Len(quality.cache) = CacheLimit
         /\ CacheKeys(quality.cache') # CacheKeys(quality.cache)) =>
          /\ SubSeq(quality.cache', 1, CacheLimit - 1) = Tail(quality.cache)
          /\ quality.cache'[CacheLimit].key \notin CacheKeys(quality.cache)]_vars

\* the cache is full, the last call hit its oldest entry, and another
\* analysis is in flight
C28_Witness ==
  /\ Len(quality.cache) = CacheLimit
  /\ \E i \in DOMAIN quality.last :
       /\ quality.last[i].hit
       /\ generateCacheKey(quality.last[i].buffer) = quality.cache[1].key
  /\ quality.inflight # <<>>

C30_ResultCountsConsistent ==
  [][(phase = "results" /\ phase' = "search") =>
       LET r == downloadResults'[Len(downloadResults')]
       IN /\ r.attempted = r.downloaded + r.failed
          /\ r.attempted <= MaxImagesPerItem
          /\ r.attempted <= Len(products[cur].urls)
          /\ r.downloaded = Cardinality({i \in DOMAIN results : IsKept(results[i])})
          /\ r.downloaded = 0 => r.confSum = 0]_vars

\* a product with more candidate URLs than maxImagesPerItem, whose result
\* counts kept and failed downloads
C30_Witness ==
  /\ downloadResults # <<>>
  /\ Len(products[1].urls) > MaxImagesPerItem
  /\ downloadResults[1].attempted = MaxImagesPerItem
  /\ downloadResults[1].downloaded >= 1
  /\ downloadResults[1].failed >= 1

=============================================================================
